---- MODULE Spec2Model ----
(***************************************************************************)
(* State-machine model of src/crawler.py (class WebCrawler).               *)
(*                                                                         *)
(* Threads: the Tk main thread runs the button handlers start_crawler,     *)
(* stop_crawler and clear_storage one at a time (mpc is its position);     *)
(* the worker threads run WebCrawler.worker (pc[w] is the position of the  *)
(* thread in slot w).  Steps of different threads interleave freely.       *)
(*                                                                         *)
(* A URL is the record urlparse() would return for it (scheme, netloc,     *)
(* path).  The CSV file is the sequence of its data rows (URL, Status);    *)
(* a file that does not exist and a file that holds only the header row    *)
(* behave alike in load_urls and save_url and are both <<>>.  The          *)
(* Timestamp column, the log panel, the Treeview table and the two count   *)
(* labels are display-only and are left out.                               *)
(***************************************************************************)
EXTENDS Integers, Sequences, FiniteSets, TLC

\* ---------------------------------------------------------------- bounds
MaxWorkers == 2        \* thread slots: worker threads alive at a time
MaxEvents  == 3        \* button presses, failed fetches and failed file writes per behaviour

\* ------------------------------------------------------ program constants
MinThreadCount == 1    \* crawler.py:265
MaxThreadCount == 16   \* crawler.py:265
HTTP_OK        == 200  \* crawler.py:168
TransportError == 0    \* crawler.py:185
NoResponse     == -1   \* no request made in the current iteration

\* ------------------------------------------------------------ the web
Url(s, n, p) == [scheme |-> s, netloc |-> n, path |-> p]
NoUrl  == Url("", "", "")
A0     == Url("https", "a.com", "/")
A1     == Url("https", "a.com", "/x")
B0     == Url("https", "b.com", "/page")
MailTo == Url("mailto", "", "x@a.com")
Ftp    == Url("ftp", "a.com", "/")
Pages  == {A0, A1, B0}

\* an href is either absolute (a full URL) or a path relative to the page
Abs(u) == [abs |-> TRUE, url |-> u, path |-> ""]
Rel(p) == [abs |-> FALSE, url |-> NoUrl, path |-> p]

\* the anchors of each page, in document order (the environment)
Hrefs(u) ==
    IF u = A0 THEN << Rel("/x"), Abs(B0), Abs(MailTo), Abs(B0) >>
    ELSE IF u = A1 THEN << Rel("/"), Abs(B0) >>
    ELSE IF u = B0 THEN << >>
    ELSE << >>

Workers == 1..MaxWorkers
NoLock  == 0

VARIABLES
    url_queue,         \* self.url_queue: FIFO of URLs
    visited_urls,      \* self.visited_urls
    visited_lock,      \* self.visited_lock: NoLock or the worker holding it
    crawler_running,   \* self.crawler_running
    current_status,    \* self.current_status: "Idle", "Running", "Stopped"
    storage,           \* data rows of the CSV file named by storage_file_entry
    start_url,         \* start_url_entry as read by the last successful start
    max_threads,       \* max_threads_entry as read by the last successful start
    politeness_delay,  \* politeness_delay_entry as read by the last successful start
    restrict_domain,   \* self.restrict_domain ("Stay on Domain")
    dialog,            \* messagebox shown by the last handler: "info", "error", "none"
    mpc,               \* position of the main thread inside a handler
    pc,                \* pc[w]: position of worker thread w
    url,               \* url[w]: local variable url of worker w
    links,             \* links[w]: links still to be examined by worker w
    response,          \* history: outcome of requests.get in w's current iteration
    late,              \* history: late[w] iff w's last pop found the flag false
    crawled,           \* history: URLs recorded since the last successful start
    pushed,            \* history: URLs put on the queue since the last successful start
    events,            \* history: number of button presses and of failures so far
    resets             \* history: number of clear_storage invocations

vars == << url_queue, visited_urls, visited_lock, crawler_running, current_status,
           storage, start_url, max_threads, politeness_delay, restrict_domain,
           dialog, mpc, pc, url, links, response, late, crawled, pushed, events,
           resets >>

\* ------------------------------------------------------------- helpers
Row(u, st) == [url |-> u, status |-> st]

Rows(u) == { i \in DOMAIN storage : storage[i].url = u }

\* urljoin(url, href), crawler.py:176
urljoin(base, href) ==
    IF href.abs THEN href.url ELSE Url(base.scheme, base.netloc, href.path)

\* the filter of crawler.py:179; base_domain = "" stands for None
accept(parsed, base_domain) ==
    /\ (base_domain = "" \/ parsed.netloc = base_domain)
    /\ parsed.scheme \in {"http", "https"}

\* the link list crawl_page builds from a 200 response, crawler.py:171-182
ExtractLinks(u, restrict) ==
    LET base_domain == IF restrict THEN u.netloc ELSE ""
        full == [ i \in DOMAIN Hrefs(u) |-> urljoin(u, Hrefs(u)[i]) ]
    IN  SelectSeq(full, LAMBDA l : accept(l, base_domain))

\* mutant: the test of the status code (crawler.py:168-169) is missing
crawl_pageNoStatusTest(u, code, restrict) ==
    IF code = TransportError THEN << << >>, TransportError >>
    ELSE << ExtractLinks(u, restrict), code >>

\* mutant: the except branch reports the failure as a server error
crawl_pageErrorAsServerError(u, code, restrict) ==
    IF code = TransportError THEN << << >>, 500 >>
    ELSE IF code # HTTP_OK THEN << << >>, code >>
    ELSE << ExtractLinks(u, restrict), code >>

\* crawl_page(url) for a given response: code is the HTTP status, or
\* TransportError when requests.get raised; returns <<links, status>>
crawl_page(u, code, restrict) ==
    IF code = TransportError THEN << << >>, TransportError >>
    ELSE IF code # HTTP_OK THEN << << >>, code >>
    ELSE << ExtractLinks(u, restrict), code >>

\* the responses a GET of u can meet: an HTTP status, or TransportError
\* when requests.get raises (crawler.py:166-167, 183-185)
Responses(u) == {HTTP_OK, 500, TransportError}

\* mutant: a session whose workers have all left counts as not running
AlreadyRunningWithWorkers(running, live) == running /\ live # {}

\* if self.crawler_running, crawler.py:253; the live threads play no part
AlreadyRunning(running, live) == running

\* start_url.startswith(('http://', 'https://')), crawler.py:259
ValidSeed(u) == u.scheme \in {"http", "https"}

\* mutant: the lower limit of the range off by one
ValidThreadsFromZero(n) == 0 <= n /\ n <= MaxThreadCount

\* 1 <= max_threads <= 16, crawler.py:265
ValidThreads(n) == MinThreadCount <= n /\ n <= MaxThreadCount

\* delay >= 0, crawler.py:273
ValidDelay(d) == d >= 0

\* mutant: the first data row is skipped together with the header
LoadedUrlsSkipFirst(rows) == { rows[i].url : i \in DOMAIN rows \ {1} }

\* the URLs load_urls adds to visited_urls, crawler.py:241-244
LoadedUrls(rows) == { rows[i].url : i \in DOMAIN rows }

\* the loop condition of worker, crawler.py:189
LoopCondition(running) == running

\* mutant: queue.Empty sends the thread back to the get
AfterEmptyRetry == "get"

\* where worker goes on queue.Empty, crawler.py:210-211
AfterEmpty == "Exited"

\* mutant: the link is put without the test
ShouldPushAlways(link, visited) == TRUE

\* the test of crawler.py:204
ShouldPush(link, visited) == link \notin visited

\* mutant: an exception of the file write leaves save_url and is caught by
\* the handler of worker (crawler.py:212-214), which skips the push loop
AfterSaveUncaught(written) == IF written THEN "push" ELSE "loop"

\* where worker goes after save_url: save_url catches its own exceptions
\* (crawler.py:231-232), so line 202 follows in both cases
AfterSave(written) == "push"

\* mutant: the lock is acquired by hand and not released after the loop
LockAfterPushKept(w) == w

\* visited_lock when the with block of crawler.py:202-205 is left
LockAfterPush(w) == NoLock

Live == { w \in Workers : pc[w] # "Exited" }
Free == Workers \ Live

\* the n lowest free thread slots
RECURSIVE Lowest(_, _)
Lowest(S, n) ==
    IF n = 0 \/ S = {} THEN {}
    ELSE LET m == CHOOSE x \in S : \A y \in S : x <= y
         IN  {m} \cup Lowest(S \ {m}, n - 1)

\* ---------------------------------------------------------------- Init
\* __init__ (crawler.py:20-26) and setup_stats (150-154); the CSV file may
\* hold rows of an earlier run of the program
Init ==
    /\ url_queue = << >>
    /\ visited_urls = {}
    /\ visited_lock = NoLock
    /\ crawler_running = FALSE
    /\ current_status = "Idle"
    /\ storage \in { << >>, << Row(A0, HTTP_OK) >> }
    /\ start_url = NoUrl
    /\ max_threads = 0
    /\ politeness_delay = 0
    /\ restrict_domain = TRUE
    /\ dialog = "none"
    /\ mpc = "idle"
    /\ pc = [w \in Workers |-> "Exited"]
    /\ url = [w \in Workers |-> NoUrl]
    /\ links = [w \in Workers |-> << >>]
    /\ response = [w \in Workers |-> NoResponse]
    /\ late = [w \in Workers |-> FALSE]
    /\ crawled = {}
    /\ pushed = {}
    /\ events = 0
    /\ resets = 0

\* ------------------------------------------------------- worker thread
config == << start_url, max_threads, politeness_delay, restrict_domain >>
mainVars == << crawler_running, current_status, config, dialog, mpc, resets >>
Fault(code, written) == (IF code = HTTP_OK THEN 0 ELSE 1) + (IF written THEN 0 ELSE 1)

\* crawler.py:189  while self.crawler_running
WhileCheck(w) ==
    /\ pc[w] = "loop"
    /\ pc' = [pc EXCEPT ![w] = IF LoopCondition(crawler_running) THEN "get" ELSE "Exited"]
    /\ UNCHANGED << url_queue, visited_urls, visited_lock, storage, crawled, pushed,
                    url, links, response, late, events, mainVars >>

\* crawler.py:191  url = self.url_queue.get(timeout=2); 210-211 on queue.Empty
Get(w) ==
    /\ pc[w] = "get"
    /\ IF url_queue # << >>
       THEN /\ url' = [url EXCEPT ![w] = Head(url_queue)]
            /\ url_queue' = Tail(url_queue)
            /\ late' = [late EXCEPT ![w] = ~crawler_running]
            /\ pc' = [pc EXCEPT ![w] = "check"]
       ELSE /\ pc' = [pc EXCEPT ![w] = AfterEmpty]
            /\ UNCHANGED << url, url_queue, late >>
    /\ UNCHANGED << visited_urls, visited_lock, storage, crawled, pushed,
                    links, response, events, mainVars >>

\* crawler.py:193-197  check-and-add under visited_lock
CheckAndAdd(w) ==
    /\ pc[w] = "check"
    /\ visited_lock = NoLock
    /\ IF url[w] \in visited_urls
       THEN /\ pc' = [pc EXCEPT ![w] = "loop"]
            /\ url' = [url EXCEPT ![w] = NoUrl]
            /\ late' = [late EXCEPT ![w] = FALSE]
            /\ UNCHANGED visited_urls
       ELSE /\ visited_urls' = visited_urls \cup {url[w]}
            /\ pc' = [pc EXCEPT ![w] = "crawl"]
            /\ UNCHANGED << url, late >>
    /\ UNCHANGED << url_queue, visited_lock, storage, crawled, pushed,
                    links, response, events, mainVars >>

\* crawler.py:199-200  links, status = self.crawl_page(url);
\* self.save_url(url, status), whose write to the file may raise (216-232)
CrawlAndSave(w) ==
    /\ pc[w] = "crawl"
    /\ \E code \in Responses(url[w]), written \in BOOLEAN :
         LET r == crawl_page(url[w], code, restrict_domain)
         IN  /\ events + Fault(code, written) <= MaxEvents
             /\ events' = events + Fault(code, written)
             /\ links' = [links EXCEPT ![w] = r[1]]
             /\ response' = [response EXCEPT ![w] = code]
             /\ IF written
                THEN /\ storage' = Append(storage, Row(url[w], r[2]))
                     /\ crawled' = crawled \cup {url[w]}
                ELSE UNCHANGED << storage, crawled >>
             /\ pc' = [pc EXCEPT ![w] = AfterSave(written)]
    /\ UNCHANGED << url_queue, visited_urls, visited_lock, pushed,
                    url, late, mainVars >>

\* crawler.py:202-208  one iteration of the for loop under visited_lock
\* (taken on the first iteration); when no link is left the lock is
\* released, the thread sleeps, calls task_done and goes back to the while
PushLink(w) ==
    /\ \/ pc[w] = "push" /\ visited_lock = NoLock
       \/ pc[w] = "links" /\ visited_lock = w
    /\ IF links[w] # << >> /\ ShouldPush(Head(links[w]), visited_urls)
       THEN /\ url_queue' = Append(url_queue, Head(links[w]))
            /\ pushed' = pushed \cup {Head(links[w])}
       ELSE UNCHANGED << url_queue, pushed >>
    /\ IF Len(links[w]) > 1
       THEN /\ links' = [links EXCEPT ![w] = Tail(links[w])]
            /\ visited_lock' = w
            /\ pc' = [pc EXCEPT ![w] = "links"]
            /\ UNCHANGED << url, response, late >>
       ELSE /\ links' = [links EXCEPT ![w] = << >>]
            /\ visited_lock' = LockAfterPush(w)
            /\ pc' = [pc EXCEPT ![w] = "loop"]
            /\ url' = [url EXCEPT ![w] = NoUrl]
            /\ response' = [response EXCEPT ![w] = NoResponse]
            /\ late' = [late EXCEPT ![w] = FALSE]
    /\ UNCHANGED << visited_urls, storage, crawled, events, mainVars >>

WorkerStep(w) ==
    \/ WhileCheck(w)
    \/ Get(w)
    \/ CheckAndAdd(w)
    \/ CrawlAndSave(w)
    \/ PushLink(w)

\* --------------------------------------------------------- main thread
workerVars == << pc, url, links, response, late, visited_lock >>

\* crawler.py:250-281  validation, then the flag and the status are set
StartCrawler(seed, n, delay, restrict) ==
    /\ mpc = "idle"
    /\ events < MaxEvents
    /\ events' = events + 1
    /\ IF AlreadyRunning(crawler_running, Live)
       THEN /\ dialog' = "info"
            /\ UNCHANGED << crawler_running, current_status, config, mpc, crawled, pushed >>
       ELSE IF ~ValidSeed(seed)
       THEN /\ dialog' = "error"
            /\ UNCHANGED << crawler_running, current_status, config, mpc, crawled, pushed >>
       ELSE IF ~ValidThreads(n)
       THEN /\ dialog' = "error"
            /\ UNCHANGED << crawler_running, current_status, config, mpc, crawled, pushed >>
       ELSE IF ~ValidDelay(delay)
       THEN /\ dialog' = "error"
            /\ UNCHANGED << crawler_running, current_status, config, mpc, crawled, pushed >>
       ELSE /\ n <= Cardinality(Free)
            /\ crawler_running' = TRUE
            /\ current_status' = "Running"
            /\ start_url' = seed
            /\ max_threads' = n
            /\ politeness_delay' = delay
            /\ restrict_domain' = restrict
            /\ dialog' = "none"
            /\ crawled' = {}
            /\ pushed' = {}
            /\ mpc' = "start_clear"
    /\ UNCHANGED << url_queue, visited_urls, storage, resets, workerVars >>

\* crawler.py:282  self.url_queue.queue.clear()
StartClear ==
    /\ mpc = "start_clear"
    /\ url_queue' = << >>
    /\ mpc' = "start_put"
    /\ UNCHANGED << visited_urls, storage, crawler_running, current_status, config,
                    dialog, events, resets, crawled, pushed, workerVars >>

\* crawler.py:283  self.url_queue.put(start_url)
StartPut ==
    /\ mpc = "start_put"
    /\ url_queue' = Append(url_queue, start_url)
    /\ pushed' = pushed \cup {start_url}
    /\ mpc' = "start_load"
    /\ UNCHANGED << visited_urls, storage, crawler_running, current_status, config,
                    dialog, events, resets, crawled, workerVars >>

\* crawler.py:284, 234-248  self.load_urls()
LoadUrls ==
    /\ mpc = "start_load"
    /\ visited_urls' = visited_urls \cup LoadedUrls(storage)
    /\ mpc' = "start_spawn"
    /\ UNCHANGED << url_queue, storage, crawler_running, current_status, config,
                    dialog, events, resets, crawled, pushed, workerVars >>

\* crawler.py:287-292  max_threads threads are created and started
SpawnWorkers ==
    /\ mpc = "start_spawn"
    /\ pc' = [w \in Workers |-> IF w \in Lowest(Free, max_threads) THEN "loop" ELSE pc[w]]
    /\ mpc' = "idle"
    /\ UNCHANGED << url_queue, visited_urls, visited_lock, storage, crawler_running,
                    current_status, config, dialog, events, resets, crawled, pushed,
                    url, links, response, late >>

\* crawler.py:298-303
StopCrawler ==
    /\ mpc = "idle"
    /\ events < MaxEvents
    /\ events' = events + 1
    /\ crawler_running
    /\ crawler_running' = FALSE
    /\ current_status' = "Stopped"
    /\ dialog' = "none"
    /\ UNCHANGED << url_queue, visited_urls, storage, config, mpc, resets,
                    crawled, pushed, workerVars >>

\* crawler.py:305-311  the user confirms; the file is removed
ClearStorage ==
    /\ mpc = "idle"
    /\ events < MaxEvents
    /\ events' = events + 1
    /\ storage' = << >>
    /\ resets' = resets + 1
    /\ dialog' = "none"
    /\ mpc' = "clear_visited"
    /\ UNCHANGED << url_queue, visited_urls, crawler_running, current_status, config,
                    crawled, pushed, workerVars >>

\* crawler.py:312-315  self.visited_urls.clear(); self.setup_stats()
ClearVisited ==
    /\ mpc = "clear_visited"
    /\ visited_urls' = {}
    /\ current_status' = "Idle"
    /\ mpc' = "idle"
    /\ UNCHANGED << url_queue, storage, crawler_running, config, dialog, events, resets,
                    crawled, pushed, workerVars >>

\* --------------------------------------------------------------- inputs
Seeds        == {A0, B0, Ftp}
ThreadCounts == {0, 1, MaxThreadCount + 1}
Delays       == {-1, 1}

Next ==
    \/ \E w \in Workers : WorkerStep(w)
    \/ \E seed \in Seeds, n \in ThreadCounts, delay \in Delays, restrict \in BOOLEAN :
         StartCrawler(seed, n, delay, restrict)
    \/ StartClear
    \/ StartPut
    \/ LoadUrls
    \/ SpawnWorkers
    \/ StopCrawler
    \/ ClearStorage
    \/ ClearVisited

Spec == Init /\ [][Next]_vars

\* every live worker thread keeps being scheduled
FairSpec == Spec /\ \A w \in Workers : WF_vars(WorkerStep(w))

\* a session that is never stopped: the Stop button is not pressed and a
\* start may ask for one or two threads; a handler of the main thread, once
\* entered, runs to its end, and every live worker thread keeps being scheduled
DrainThreadCounts == {1, 2}

DrainNext ==
    \/ \E w \in Workers : WorkerStep(w)
    \/ \E seed \in Seeds, n \in DrainThreadCounts, restrict \in BOOLEAN :
         StartCrawler(seed, n, 1, restrict)
    \/ StartClear
    \/ StartPut
    \/ LoadUrls
    \/ SpawnWorkers
    \/ ClearStorage
    \/ ClearVisited

Handler == StartClear \/ StartPut \/ LoadUrls \/ SpawnWorkers \/ ClearVisited

DrainSpec ==
    /\ Init /\ [][DrainNext]_vars
    /\ \A w \in Workers : WF_vars(WorkerStep(w))
    /\ WF_vars(Handler)

\* ======================================================== properties
\* steps seen from outside
Put(u) == url_queue' = Append(url_queue, u)
WorkerPut(u) == Put(u) /\ mpc' = mpc
Wrote(u) == Len(storage') = Len(storage) + 1 /\ storage'[Len(storage')].url = u
Spawned == { w \in Workers : pc[w] = "Exited" /\ pc'[w] = "loop" }
InQueue(u) == \E i \in DOMAIN url_queue : url_queue[i] = u
StepOf(w) == pc'[w] # pc[w] \/ links'[w] # links[w]
Fetched(w) == pc[w] = "crawl" /\ pc'[w] # "crawl"

\* C1: within one session (since the last successful start) no URL gets a
\* second CrawlRecord: a row is only written for a URL that has no row in
\* this session yet.
C1_RecordedOncePerSession ==
    [][\A u \in Pages : Wrote(u) => u \notin crawled]_vars

\* C2 (as stated): while the running flag is true no URL is put on the
\* Frontier Queue a second time in the session.
C2_NeverEnqueuedTwice ==
    [][\A u \in Pages : (crawler_running' /\ Put(u)) => u \notin pushed]_vars

\* C2 (amended): as long as no reset has happened, a worker never puts a URL
\* on the Frontier Queue that is in the Visited Set; a URL that is not yet
\* visited may be put more than once.
C2_VisitedNeverEnqueued ==
    [][\A u \in Pages : (resets = 0 /\ WorkerPut(u)) => u \notin visited_urls]_vars

\* a worker crawling https://a.com/x has passed over the link to the visited
\* https://a.com/ and still holds the link to https://b.com/page
C2_Witness ==
    /\ resets = 0
    /\ crawler_running
    /\ A0 \in visited_urls
    /\ ~InQueue(A0)
    /\ \E w \in Workers : pc[w] = "links" /\ url[w] = A1 /\ links[w] = << B0 >>

\* C3: a reset invoked while the crawl is running shows an error and changes
\* neither the Visited Set, the Frontier Queue, the file nor the status; the
\* Visited Set is never emptied while the running flag is true.
C3_ResetWhileRunningRejected ==
    [][crawler_running =>
         /\ (mpc # mpc' /\ "clear_visited" \in {mpc, mpc'}) =>
               /\ dialog' = "error"
               /\ UNCHANGED << visited_urls, url_queue, storage, current_status >>
         /\ (visited_urls # {} => visited_urls' # {})]_vars

\* C4: when a reset invoked while no crawl is running completes, the Visited
\* Set, the Frontier Queue and the file are all empty.
C4_ResetEmptiesAllStores ==
    [][(~crawler_running /\ mpc = "clear_visited" /\ mpc' = "idle") =>
         (visited_urls' = {} /\ url_queue' = << >> /\ storage' = << >>)]_vars

\* C5: start goes ahead only when the crawler is not running, the seed has
\* an http(s) scheme, the thread count is within 1..16 and the delay is not
\* negative; a start that ends in a message box spawns no worker and leaves
\* the running flag, the status, the Frontier Queue and the Visited Set as
\* they were.
C5_FailedStartChangesNothing ==
    [][/\ (mpc = "idle" /\ mpc' = "start_clear") =>
             /\ ~crawler_running
             /\ start_url'.scheme \in {"http", "https"}
             /\ 1 <= max_threads' /\ max_threads' <= 16
             /\ politeness_delay' >= 0
       /\ (events' = events + 1 /\ pc' = pc /\ dialog' \in {"info", "error"}) =>
             /\ UNCHANGED << crawler_running, current_status, url_queue, visited_urls >>
             /\ Spawned = {}
             /\ mpc' = "idle"]_vars

\* a start was refused with an error box and the crawler is as constructed
C5_Witness ==
    /\ dialog = "error"
    /\ events > 0
    /\ current_status = "Idle"
    /\ ~crawler_running
    /\ url_queue = << >>
    /\ visited_urls = {}
    /\ Live = {}

\* C6: when start has spawned its workers the flag is true, the status is
\* Running, the Frontier Queue holds exactly the seed, every URL stored in
\* the file is in the Visited Set, and exactly thread_count workers were
\* spawned.
C6_StartPostcondition ==
    [][(mpc = "start_spawn" /\ mpc' = "idle") =>
         /\ crawler_running' /\ current_status' = "Running"
         /\ url_queue' = << start_url >>
         /\ LoadedUrls(storage') \subseteq visited_urls'
         /\ Cardinality(Spawned) = max_threads]_vars

C8_Quiescence ==
    /\ (<>[](~crawler_running)) => <>[](Live = {})
    /\ [][(Live = {} /\ ~crawler_running /\ ~crawler_running') =>
            (url_queue' = url_queue /\ Len(storage') <= Len(storage) /\ Live' = {})]_vars

\* after a stop every worker has exited and left work on the Frontier Queue
C8_Witness ==
    /\ current_status = "Stopped" /\ ~crawler_running
    /\ mpc = "idle"
    /\ Live = {}
    /\ url_queue # << >>
    /\ storage # << >>

\* C9: no worker begins a fetch of a URL it popped while the running flag
\* was false.
C9_NoPopAfterStop ==
    \A w \in Workers : pc[w] = "crawl" => ~late[w]

\* C10: in a running session with domain restriction on, every URL put on the
\* Frontier Queue has the netloc of the seed.
C10_RestrictedStaysOnHost ==
    [][\A u \in Pages : (crawler_running' /\ restrict_domain' /\ Put(u)) =>
          u.netloc = start_url'.netloc]_vars

\* C11: when the fetch of a URL returns an HTTP status other than 200, the
\* worker hands exactly one record with that status to save_url (the row is
\* appended unless the file write fails), keeps no link, puts nothing on the
\* Frontier Queue in that iteration and returns to the while test.
C11_NonSuccessStatus ==
    [][\A w \in Workers :
         /\ (Fetched(w) /\ response'[w] \notin {HTTP_OK, TransportError}) =>
               /\ links'[w] = << >>
               /\ pc'[w] = "push"
               /\ url_queue' = url_queue
               /\ storage' \in {storage, Append(storage, Row(url[w], response'[w]))}
         /\ (pc[w] = "push" /\ StepOf(w) /\ response[w] \notin {HTTP_OK, TransportError}) =>
               /\ url_queue' = url_queue
               /\ storage' = storage
               /\ pc'[w] = "loop"]_vars

\* the seed was answered with status 500: one row carries 500, nothing but
\* the seed was ever put on the queue and the worker is back at the while
C11_Witness ==
    /\ crawler_running /\ resets = 0
    /\ storage = << Row(A0, 500) >>
    /\ pushed = {A0}
    /\ url_queue = << >>
    /\ \E w \in Workers : pc[w] = "loop" /\ response[w] = NoResponse

\* C12: when requests.get raises, the worker hands exactly one record with
\* status 0 to save_url, keeps no link, puts nothing on the Frontier Queue,
\* returns to the while test (it does not exit) and the running flag is not
\* changed; a worker at the while test with the flag true goes on to pop, and
\* a pop on a non-empty queue takes its head.
C12_TransportFailure ==
    [][\A w \in Workers :
         /\ (Fetched(w) /\ response'[w] = TransportError) =>
               /\ links'[w] = << >>
               /\ pc'[w] = "push"
               /\ url_queue' = url_queue
               /\ storage' \in {storage, Append(storage, Row(url[w], 0))}
               /\ crawler_running' = crawler_running
         /\ (pc[w] = "push" /\ StepOf(w) /\ response[w] = TransportError) =>
               /\ url_queue' = url_queue
               /\ storage' = storage
               /\ pc'[w] = "loop"
               /\ crawler_running' = crawler_running
         /\ (pc[w] = "loop" /\ StepOf(w) /\ crawler_running) => pc'[w] = "get"
         /\ (pc[w] = "get" /\ StepOf(w) /\ url_queue # << >>) =>
               /\ pc'[w] = "check"
               /\ url'[w] = Head(url_queue)]_vars

\* the fetch of https://a.com/x failed at transport level and got a row with
\* status 0; the same worker has since popped https://b.com/page and is
\* about to fetch it
C12_Witness ==
    /\ crawler_running /\ resets = 0
    /\ Cardinality(Live) = 1
    /\ \E i \in DOMAIN storage : storage[i] = Row(A1, 0)
    /\ \E w \in Workers : pc[w] = "crawl" /\ url[w] = B0

\* C13: when the file write of save_url fails (no row is appended), the
\* worker goes on to the push loop with the links of the page, the running
\* flag and the Visited Set are not changed and (no reset having happened)
\* the URL is in the Visited Set; in the push loop every link that is not in
\* the Visited Set is put on the Frontier Queue and the worker then returns
\* to the while test.
C13_FailedSaveGoesOn ==
    [][\A w \in Workers :
         /\ (Fetched(w) /\ storage' = storage) =>
               /\ pc'[w] = "push"
               /\ (url[w] = A0 /\ response'[w] = HTTP_OK) =>
                     links'[w] = IF restrict_domain THEN << A1 >> ELSE << A1, B0, B0 >>
               /\ crawler_running' = crawler_running
               /\ visited_urls' = visited_urls
               /\ (resets = 0 => url[w] \in visited_urls')
         /\ (pc[w] \in {"push", "links"} /\ StepOf(w)) =>
               /\ pc'[w] \in {"links", "loop"}
               /\ crawler_running' = crawler_running
               /\ (links[w] # << >> /\ Head(links[w]) \notin visited_urls) =>
                     url_queue' = Append(url_queue, Head(links[w]))]_vars

\* the row of https://a.com/ could not be written, yet its link to
\* https://a.com/x is on the queue and the worker is in its next iteration
C13_Witness ==
    /\ crawler_running /\ resets = 0
    /\ storage = << >>
    /\ A0 \in visited_urls
    /\ InQueue(A1)
    /\ \E w \in Workers : pc[w] = "get"

\* C14: while the running flag stays true no URL leaves the Visited Set.
C14_VisitedMonotone ==
    [][(crawler_running /\ crawler_running') => visited_urls \subseteq visited_urls']_vars

\* C16: in a session that is never stopped the Frontier Queue eventually
\* stays empty with every worker exited, and at the step by which the last
\* live worker exits on the empty queue every URL put on the queue since the
\* start is in the Visited Set.
C16_DrainTermination ==
    /\ (<>crawler_running) => <>[](url_queue = << >> /\ Live = {})
    /\ [][(crawler_running' /\ Live # {} /\ Live' = {} /\ url_queue' = << >>)
            => pushed' \subseteq visited_urls']_vars

\* C17: the status is Running exactly when the running flag is true (so it
\* is never Idle or Stopped while the flag is true).
C17_StatusAgreesWithFlag ==
    /\ current_status \in {"Idle", "Running", "Stopped"}
    /\ (current_status = "Running") <=> crawler_running

\* C18: the number of live worker threads never exceeds the thread count of
\* the most recent successful start.
C18_PoolSizeBounded ==
    Cardinality(Live) <= max_threads

\* C19: no step of a worker, in particular its exit on an empty pop, changes
\* the running flag or the status; the flag is cleared only by stop_crawler
\* (which sets the status to Stopped); and while the flag is true every
\* start is refused with the "already running" box and changes nothing.
C19_DrainKeepsSession ==
    [][/\ \A w \in Workers :
            StepOf(w) => UNCHANGED << crawler_running, current_status >>
       /\ (crawler_running /\ ~crawler_running') =>
            /\ mpc = "idle" /\ mpc' = "idle"
            /\ current_status' = "Stopped"
            /\ UNCHANGED << pc, url_queue, visited_urls, storage >>
       /\ crawler_running => ~(mpc = "idle" /\ mpc' = "start_clear")
       /\ (crawler_running /\ crawler_running' /\ events' = events + 1
              /\ pc' = pc /\ mpc' = mpc) =>
            /\ dialog' = "info"
            /\ UNCHANGED << current_status, url_queue, visited_urls, storage, pc >>]_vars

\* the session has drained (a row was written, the queue is empty and every
\* worker has left), the flag is still true, the status Running and a start
\* has just been refused as already running
C19_Witness ==
    /\ crawler_running /\ current_status = "Running"
    /\ mpc = "idle"
    /\ Live = {}
    /\ url_queue = << >>
    /\ crawled # {}
    /\ dialog = "info"

\* C20: in a running session whose seed had a row in the file when it was
\* started (the seed has a row that was not written in this session), no row
\* is written and no worker puts a URL on the Frontier Queue.
C20_StoredSeedFetchesNothing ==
    [][(crawler_running /\ crawler_running'
          /\ Rows(start_url) # {} /\ start_url \notin crawled) =>
            /\ Len(storage') <= Len(storage)
            /\ \A u \in Pages : ~WorkerPut(u)]_vars

====
